---- MODULE Spec2Model ----
(***************************************************************************)
(* Model of the email agent workflow (src/src/agent.py): the graph of      *)
(* stages built by EmailAgent._build_graph, the state record               *)
(* EmailAgentState threaded through them, the two mock providers and the   *)
(* language model, which is the only source of nondeterminism.             *)
(*                                                                         *)
(* Optional values are sequences: None is <<>> and a present value v is    *)
(* <<v>>.  Strings built by concatenation are sequences of their parts.    *)
(***************************************************************************)
EXTENDS Integers, Sequences, FiniteSets, TLC

None == <<>>
Some(v) == <<v>>

\* ---------------------------------------------------------------- bounds
\* number of process_email calls made on the one engine instance
MaxRuns == 2
\* latest day on which the clock (datetime.now) may stand
MaxNow == 1
\* latest day on which a direct call of get_availability is made
MaxToday == 12
\* largest days_ahead a direct call of get_availability is given
MaxDaysAhead == 8

\* ---------------------------------------------------------------- models.py
EmailIntent ==
  {"meeting_request", "support_question", "information_request", "spam",
   "newsletter", "urgent_business", "follow_up"}

EmailUrgency == {"high", "medium", "low"}

\* EmailClassification: every value the parser can produce
EmailClassification ==
  [intent : EmailIntent, urgency : EmailUrgency,
   requires_response : BOOLEAN, reasoning : {"model reasoning"}]

\* EmailData values fed to process_email (sender, subject, content); the
\* first three are the driver's batch, the last is the test fixture
EmailData ==
  { [sender |-> "ceo@company.com", subject |-> "Meeting Request", content |-> "schedule a meeting"],
    [sender |-> "support@customer.com", subject |-> "Question", content |-> "documentation?"],
    [sender |-> "newsletter@spam.com", subject |-> "Amazing deals", content |-> "save 90%"],
    [sender |-> "test@example.com", subject |-> "Test Subject", content |-> "Test content"] }

\* CalendarSlot; times are minutes since midnight of day 0
CalendarSlot(start, end, duration) ==
  [start_time |-> start, end_time |-> end, duration_minutes |-> duration]

\* ResponseDraft with its two defaulted fields
ResponseDraft(subject, content, tone) ==
  [subject |-> subject, content |-> content, tone |-> tone,
   includes_meeting_times |-> FALSE, proposed_times |-> <<>>]

\* ---------------------------------------------------------------- mock_services.py
mock_contacts ==
  [a \in {"ceo@company.com", "support@customer.com"} |->
     IF a = "ceo@company.com"
     THEN [name |-> "CEO", title |-> "Chief Executive Officer",
           company |-> "Important Corp", importance |-> "high",
           relationship |-> "key_stakeholder"]
     ELSE [name |-> "Support Team", title |-> "Customer Support",
           company |-> "Customer Corp", importance |-> "medium",
           relationship |-> "customer"]]

\* dict.get(key, default)
DictGet(d, key, default) == IF key \in DOMAIN d THEN d[key] ELSE default

\* get_sender_context whose default rates the sender low
get_sender_context_default_low(email_address) ==
  DictGet(mock_contacts, email_address,
          [name |-> email_address, importance |-> "low",
           relationship |-> "unknown"])

get_sender_context(email_address) ==
  DictGet(mock_contacts, email_address,
          [name |-> email_address, importance |-> "medium",
           relationship |-> "unknown"])

MinutesPerDay == 1440

DaysAheadDefault == 7

MaxSlots == 5

RECURSIVE DaySlots(_, _, _)
\* the body of the loop of get_availability, for day = from .. days_ahead
DaySlots(today, from, days_ahead) ==
  IF from > days_ahead THEN <<>>
  ELSE LET date == (today + from) * MinutesPerDay
       IN  << CalendarSlot(date + 9 * 60, date + 10 * 60, 60),
              CalendarSlot(date + 14 * 60, date + 15 * 60, 60) >>
           \o DaySlots(today, from + 1, days_ahead)

\* slots[:n + 1]
TakeOneMore(s, n) == SubSeq(s, 1, IF Len(s) < n + 1 THEN Len(s) ELSE n + 1)

\* slots[:n]
Take(s, n) == SubSeq(s, 1, IF Len(s) < n THEN Len(s) ELSE n)

\* get_availability without the final slots[:5]
get_availability_uncapped(today, days_ahead) ==
  DaySlots(today, 1, days_ahead)

get_availability(today, days_ahead) ==
  Take(DaySlots(today, 1, days_ahead), MaxSlots)

\* ---------------------------------------------------------------- state
VARIABLES
  pc,          \* node of the graph about to run; Idle, END or Raised between calls
  state,       \* the EmailAgentState of the current (or last) run
  trace,       \* nodes executed so far by the current run, in order
  calls,       \* calls of calendar_service.get_availability made by the current run
  clsFailed,   \* the model call of classify_email failed in the current run
  draftFailed, \* the model call of draft_response failed in the current run
  runs,        \* number of process_email calls made so far
  now,         \* the day datetime.now() falls on
  det,         \* the collaborators behave as functions of their inputs
  left,        \* fields the previous run had left populated when this one began
  prev,        \* det: what the previous call returned, if it was for this email
  lastCls,     \* det: prompt and answer of the last classification of this email
  lastDraft,   \* det: prompt and answer of the last drafting for this email
  avail,       \* argument and result of the last direct call of get_availability
  driver       \* the console driver: where main() stands and what it has done

vars == <<pc, state, trace, calls, clsFailed, draftFailed, runs, now, det,
          left, prev, lastCls, lastDraft, avail, driver>>

Idle == "idle"
END == "__end__"
Raised == "raised"

HumanMessage(content) == [type |-> "human", content |-> content]
AIMessage(content) == [type |-> "ai", content |-> content]

\* process_email reusing the state of the last run for the new email
initial_state_reused(email_data) == [state EXCEPT !.email = Some(email_data)]

\* the value process_email builds before invoking the graph
initial_state(email_data) ==
  [email |-> Some(email_data),
   sender_context |-> None,
   classification |-> None,
   calendar_availability |-> None,
   response_draft |-> None,
   final_response |-> None,
   should_send |-> FALSE,
   messages |-> <<>>,
   error |-> None]

\* no EmailAgentState exists before the first call
NoState ==
  [email |-> None, sender_context |-> None, classification |-> None,
   calendar_availability |-> None, response_draft |-> None,
   final_response |-> None, should_send |-> FALSE, messages |-> <<>>,
   error |-> None]

\* what a node hands back to the graph: the state it returns, or the
\* exception that left it, and how often it called get_availability
Return(s) == [state |-> s, exc |-> None, availability_calls |-> 0]
Raise(s, e) == [state |-> s, exc |-> Some(e), availability_calls |-> 0]
CalledAvailability(r) == [r EXCEPT !.availability_calls = @ + 1]

\* ---------------------------------------------------------------- the model
ExceptionTexts == {"", "Connection error"}

LLMAnswer(v) == [value |-> Some(v), exc |-> None]
LLMError(e) == [value |-> None, exc |-> Some(e)]

\* outcomes of llm.invoke followed by classification_parser.parse
ClassifyOutcomes ==
  {LLMAnswer(c) : c \in EmailClassification} \cup
  {LLMError(e) : e \in ExceptionTexts}

\* outcomes of llm.invoke followed by response_parser.parse; the model may
\* propose any prefix of the slots it was shown
DraftOutcomes(availability) ==
  {LLMAnswer([subject |-> "Generated subject", content |-> "Generated reply",
              tone |-> t, includes_meeting_times |-> i,
              proposed_times |-> SubSeq(availability, 1, n)]) :
      <<t, i, n>> \in {"professional", "casual"} \X BOOLEAN \X
                     (0 .. IF Len(availability) < 1 THEN 0 ELSE 1)} \cup
  {LLMError(e) : e \in ExceptionTexts}

\* a deterministic model gives the answer it gave to the same prompt before
Consistent(last, prompt, out) ==
  (det /\ last # None /\ last[1].prompt = prompt) => out = last[1].out

\* model calls are remembered only to hold a deterministic model to them
Remember(prompt, out) ==
  IF det THEN Some([prompt |-> prompt, out |-> out]) ELSE None

\* ---------------------------------------------------------------- nodes
\* _enrich_sender_context that replaces the sender by the contact's name
enrich_sender_context_renames_sender(s) ==
  LET email == s.email[1]
      sender_context == get_sender_context(email.sender)
  IN  Return([s EXCEPT
        !.email = Some([email EXCEPT !.sender = sender_context.name]),
        !.sender_context = Some(sender_context),
        !.messages = Append(@, HumanMessage(
                       <<"Enriched sender context for ", email.sender>>))])

_enrich_sender_context(s) ==
  LET email == s.email[1]
      sender_context == get_sender_context(email.sender)
  IN  Return([s EXCEPT
        !.sender_context = Some(sender_context),
        !.messages = Append(@, HumanMessage(
                       <<"Enriched sender context for ", email.sender>>))])

\* CLASSIFICATION_PROMPT.format_messages(...)
ClassificationPrompt(s) ==
  LET email == s.email[1]
      sender_context == s.sender_context[1]
  IN  [sender |-> email.sender,
       sender_title |-> DictGet(sender_context, "title", "Unknown"),
       sender_company |-> DictGet(sender_context, "company", "Unknown"),
       subject |-> email.subject,
       content |-> email.content,
       importance |-> DictGet(sender_context, "importance", "medium"),
       relationship |-> DictGet(sender_context, "relationship", "unknown")]

\* a fallback that asks for no response
FallbackClassificationNoResponse ==
  [intent |-> "information_request", urgency |-> "medium",
   requires_response |-> FALSE,
   reasoning |-> "Failed to classify, using default"]

FallbackClassification ==
  [intent |-> "information_request", urgency |-> "medium",
   requires_response |-> TRUE,
   reasoning |-> "Failed to classify, using default"]

\* _classify_email without its try/except
classify_email_uncaught(s, response) ==
  IF response.exc = None
  THEN LET classification == response.value[1]
       IN  Return([s EXCEPT
             !.classification = Some(classification),
             !.messages = Append(@, AIMessage(
                 <<"Classified email: ", classification.intent, ", ",
                   classification.urgency>>))])
  ELSE Raise(s, response.exc[1])

\* _classify_email whose handler substitutes the fallback silently
classify_email_silent_fallback(s, response) ==
  IF response.exc = None
  THEN LET classification == response.value[1]
       IN  Return([s EXCEPT
             !.classification = Some(classification),
             !.messages = Append(@, AIMessage(
                 <<"Classified email: ", classification.intent, ", ",
                   classification.urgency>>))])
  ELSE Return([s EXCEPT !.classification = Some(FallbackClassification)])

_classify_email(s, response) ==
  IF response.exc = None
  THEN LET classification == response.value[1]
       IN  Return([s EXCEPT
             !.classification = Some(classification),
             !.messages = Append(@, AIMessage(
                 <<"Classified email: ", classification.intent, ", ",
                   classification.urgency>>))])
  ELSE Return([s EXCEPT
         !.error = Some(<<"Classification failed: ", response.exc[1]>>),
         !.classification = Some(FallbackClassification)])

\* _check_calendar_availability without the test of the intent
check_calendar_availability_always(s, today) ==
  LET availability == get_availability(today, DaysAheadDefault)
  IN  CalledAvailability(Return([s EXCEPT
        !.calendar_availability = Some(availability),
        !.messages = Append(@, HumanMessage(
            <<"Retrieved ", ToString(Len(availability)),
              " available time slots">>))]))

_check_calendar_availability(s, today) ==
  LET classification == s.classification[1]
  IN  IF classification.intent = "meeting_request"
      THEN LET availability == get_availability(today, DaysAheadDefault)
           IN  CalledAvailability(Return([s EXCEPT
                 !.calendar_availability = Some(availability),
                 !.messages = Append(@, HumanMessage(
                     <<"Retrieved ", ToString(Len(availability)),
                       " available time slots">>))]))
      ELSE Return(s)

\* strftime('%I:%M %p') of a time of day in minutes
Clock12(minutes) ==
  LET h == minutes \div 60
  IN  [hour |-> IF h % 12 = 0 THEN 12 ELSE h % 12, minute |-> minutes % 60,
       half |-> IF h < 12 THEN "AM" ELSE "PM"]

\* one line of availability_text: weekday and day of the year of the start
\* (the year is not printed), and the two clock times
FormatSlot(slot) ==
  [weekday |-> (slot.start_time \div MinutesPerDay) % 7,
   date |-> (slot.start_time \div MinutesPerDay) % 365,
   start |-> Clock12(slot.start_time % MinutesPerDay),
   end |-> Clock12(slot.end_time % MinutesPerDay)]

\* state.get("calendar_availability", []): the key is always present, so
\* the default is never used and None comes back as an empty list here
CalendarAvailability(s) ==
  IF s.calendar_availability = None THEN <<>> ELSE s.calendar_availability[1]

AvailabilityText(calendar_availability) ==
  IF Len(calendar_availability) > 0
  THEN [i \in 1 .. Len(calendar_availability) |->
          FormatSlot(calendar_availability[i])]
  ELSE <<[literal |-> "No calendar check needed"]>>

\* a response prompt that also carries the number of the call
ResponsePromptNumbered(s) ==
  LET email == s.email[1]
      classification == s.classification[1]
      sender_context == s.sender_context[1]
  IN  [sender |-> email.sender,
       subject |-> email.subject,
       content |-> email.content,
       intent |-> classification.intent,
       urgency |-> classification.urgency,
       importance |-> DictGet(sender_context, "importance", "medium"),
       relationship |-> DictGet(sender_context, "relationship", "unknown"),
       availability |-> AvailabilityText(CalendarAvailability(s)),
       call |-> runs]

\* RESPONSE_PROMPT.format_messages(...)
ResponsePrompt(s) ==
  LET email == s.email[1]
      classification == s.classification[1]
      sender_context == s.sender_context[1]
  IN  [sender |-> email.sender,
       subject |-> email.subject,
       content |-> email.content,
       intent |-> classification.intent,
       urgency |-> classification.urgency,
       importance |-> DictGet(sender_context, "importance", "medium"),
       relationship |-> DictGet(sender_context, "relationship", "unknown"),
       availability |-> AvailabilityText(CalendarAvailability(s))]

FallbackContent ==
  "Thank you for your email. I'll review this and get back to you soon."

\* _draft_response that clears the error field when drafting succeeds
draft_response_clears_error(s, response) ==
  LET email == s.email[1]
  IN  IF response.exc = None
      THEN LET draft == response.value[1]
           IN  Return([s EXCEPT
                 !.error = None,
                 !.response_draft = Some(draft),
                 !.messages = Append(@, AIMessage(
                     <<"Drafted response with tone: ", draft.tone>>))])
      ELSE Return([s EXCEPT
             !.error = Some(<<"Response drafting failed: ", response.exc[1]>>),
             !.response_draft = Some(ResponseDraft(
                 <<"Re: ", email.subject>>, FallbackContent, "professional"))])

\* _draft_response whose fallback reuses the subject as it is
draft_response_fallback_plain_subject(s, response) ==
  LET email == s.email[1]
  IN  IF response.exc = None
      THEN LET draft == response.value[1]
           IN  Return([s EXCEPT
                 !.response_draft = Some(draft),
                 !.messages = Append(@, AIMessage(
                     <<"Drafted response with tone: ", draft.tone>>))])
      ELSE Return([s EXCEPT
             !.error = Some(<<"Response drafting failed: ", response.exc[1]>>),
             !.response_draft = Some(ResponseDraft(
                 <<email.subject>>, FallbackContent, "professional"))])

_draft_response(s, response) ==
  LET email == s.email[1]
  IN  IF response.exc = None
      THEN LET draft == response.value[1]
           IN  Return([s EXCEPT
                 !.response_draft = Some(draft),
                 !.messages = Append(@, AIMessage(
                     <<"Drafted response with tone: ", draft.tone>>))])
      ELSE Return([s EXCEPT
             !.error = Some(<<"Response drafting failed: ", response.exc[1]>>),
             !.response_draft = Some(ResponseDraft(
                 <<"Re: ", email.subject>>, FallbackContent, "professional"))])

\* _human_review that leaves the approval flag as it is
human_review_without_approval(s) ==
  LET draft == s.response_draft[1]
  IN  Return([s EXCEPT
        !.final_response = Some(draft.content),
        !.messages = Append(@, HumanMessage(
                       <<"Email draft presented for human review">>))])

\* _human_review that approves without copying the content of the draft
human_review_without_final_response(s) ==
  Return([s EXCEPT
    !.should_send = TRUE,
    !.messages = Append(@, HumanMessage(
                   <<"Email draft presented for human review">>))])

\* _human_review that copies the subject of the draft
human_review_copies_subject(s) ==
  LET draft == s.response_draft[1]
  IN  Return([s EXCEPT
        !.should_send = TRUE,
        !.final_response = Some(draft.subject),
        !.messages = Append(@, HumanMessage(
                       <<"Email draft presented for human review">>))])

_human_review(s) ==
  LET draft == s.response_draft[1]
  IN  Return([s EXCEPT
        !.should_send = TRUE,
        !.final_response = Some(draft.content),
        !.messages = Append(@, HumanMessage(
                       <<"Email draft presented for human review">>))])

\* _send_email that starts the log over
send_email_resets_log(s) ==
  Return([s EXCEPT
    !.messages = <<AIMessage(<<"Email sent successfully">>)>>])

_send_email(s) ==
  Return([s EXCEPT
    !.messages = Append(@, AIMessage(<<"Email sent successfully">>))])

\* ---------------------------------------------------------------- edges
\* _should_respond without its second test
should_respond_ignores_only_no_response(s) ==
  LET classification == s.classification[1]
  IN  IF ~classification.requires_response THEN "ignore" ELSE "respond"

_should_respond(s) ==
  LET classification == s.classification[1]
  IN  IF ~classification.requires_response THEN "ignore"
      ELSE IF classification.intent \in {"spam", "newsletter"} THEN "ignore"
      ELSE "respond"

_needs_calendar(s) ==
  LET classification == s.classification[1]
  IN  IF classification.intent = "meeting_request" THEN "calendar_needed"
      ELSE "no_calendar"

\* _human_approval with its two labels exchanged
human_approval_inverted(s) == IF s.should_send THEN "rejected" ELSE "approved"

_human_approval(s) == IF s.should_send THEN "approved" ELSE "rejected"

\* a graph whose edge out of draft_response goes to send_email
NextNodeSkippingReview(n, s) ==
  CASE n = "enrich_sender" -> "classify_email"
    [] n = "classify_email" ->
         [respond |-> "check_calendar", ignore |-> END][_should_respond(s)]
    [] n = "check_calendar" ->
         [calendar_needed |-> "draft_response",
          no_calendar |-> "draft_response"][_needs_calendar(s)]
    [] n = "draft_response" -> "send_email"
    [] n = "human_review" ->
         [approved |-> "send_email", rejected |-> END][_human_approval(s)]
    [] n = "send_email" -> END

\* the graph of _build_graph: the node that follows node n in state s
NextNode(n, s) ==
  CASE n = "enrich_sender" -> "classify_email"
    [] n = "classify_email" ->
         [respond |-> "check_calendar", ignore |-> END][_should_respond(s)]
    [] n = "check_calendar" ->
         [calendar_needed |-> "draft_response",
          no_calendar |-> "draft_response"][_needs_calendar(s)]
    [] n = "draft_response" -> "human_review"
    [] n = "human_review" ->
         [approved |-> "send_email", rejected |-> END][_human_approval(s)]
    [] n = "send_email" -> END

\* ---------------------------------------------------------------- actions
\* main() is not running
NoDriver == [pc |-> "off", i |-> 0, processed |-> <<>>, outcomes |-> <<>>]

Init ==
  /\ pc = Idle
  /\ state = NoState
  /\ trace = <<>>
  /\ calls = 0
  /\ clsFailed = FALSE
  /\ draftFailed = FALSE
  /\ runs = 0
  /\ now = 0
  /\ det = FALSE
  /\ left = {}
  /\ prev = None
  /\ lastCls = None
  /\ lastDraft = None
  /\ avail = None
  /\ driver = NoDriver

\* the same engine with a model and providers that are functions of their
\* inputs (temperature 0, frozen clock)
DetInit ==
  /\ pc = Idle
  /\ state = NoState
  /\ trace = <<>>
  /\ calls = 0
  /\ clsFailed = FALSE
  /\ draftFailed = FALSE
  /\ runs = 0
  /\ now \in 0 .. MaxNow
  /\ det = TRUE
  /\ left = {}
  /\ prev = None
  /\ lastCls = None
  /\ lastDraft = None
  /\ avail = None
  /\ driver = NoDriver

\* graph.invoke: node n has handed back result; the graph follows the edge
\* out of n, or the exception leaves process_email
Invoke(n, result) ==
  /\ state' = result.state
  /\ trace' = Append(trace, n)
  /\ calls' = calls + result.availability_calls
  /\ pc' = IF result.exc # None THEN Raised ELSE NextNode(n, result.state)
  /\ UNCHANGED <<avail, driver>>

\* the fields of s that hold something a run put there
Populated(s) ==
  {f \in {"sender_context", "classification", "calendar_availability",
          "response_draft", "final_response", "error"} : s[f] # None}
  \cup (IF s.should_send THEN {"should_send"} ELSE {})
  \cup (IF Len(s.messages) > 0 THEN {"messages"} ELSE {})

\* a caller calls process_email(email_data); the previous call has returned
ProcessEmail ==
  /\ pc \in {Idle, END, Raised}
  /\ runs < MaxRuns
  /\ \E email_data \in EmailData :
       LET again == det /\ state.email = Some(email_data)
       IN  /\ state' = initial_state(email_data)
           /\ prev' = IF again /\ pc = END THEN Some(state) ELSE None
           /\ lastCls' = IF again THEN lastCls ELSE None
           /\ lastDraft' = IF again THEN lastDraft ELSE None
  /\ left' = Populated(state)
  /\ pc' = "enrich_sender"
  /\ runs' = runs + 1
  /\ trace' = <<>>
  /\ calls' = 0
  /\ clsFailed' = FALSE
  /\ draftFailed' = FALSE
  /\ UNCHANGED <<now, det, avail, driver>>

EnrichSender ==
  /\ pc = "enrich_sender"
  /\ Invoke("enrich_sender", _enrich_sender_context(state))
  /\ UNCHANGED <<clsFailed, draftFailed, runs, now, det, left, prev,
                 lastCls, lastDraft>>

ClassifyEmail ==
  /\ pc = "classify_email"
  /\ \E response \in ClassifyOutcomes :
       LET prompt == ClassificationPrompt(state)
       IN  /\ Consistent(lastCls, prompt, response)
           /\ Invoke("classify_email", _classify_email(state, response))
           /\ clsFailed' = (response.exc # None)
           /\ lastCls' = Remember(prompt, response)
  /\ UNCHANGED <<draftFailed, runs, now, det, left, prev, lastDraft>>

CheckCalendar ==
  /\ pc = "check_calendar"
  /\ Invoke("check_calendar", _check_calendar_availability(state, now))
  /\ UNCHANGED <<clsFailed, draftFailed, runs, now, det, left, prev,
                 lastCls, lastDraft>>

DraftResponse ==
  /\ pc = "draft_response"
  /\ \E response \in DraftOutcomes(CalendarAvailability(state)) :
       LET prompt == ResponsePrompt(state)
       IN  /\ Consistent(lastDraft, prompt, response)
           /\ Invoke("draft_response", _draft_response(state, response))
           /\ draftFailed' = (response.exc # None)
           /\ lastDraft' = Remember(prompt, response)
  /\ UNCHANGED <<clsFailed, runs, now, det, left, prev, lastCls>>

HumanReview ==
  /\ pc = "human_review"
  /\ Invoke("human_review", _human_review(state))
  /\ UNCHANGED <<clsFailed, draftFailed, runs, now, det, left, prev,
                 lastCls, lastDraft>>

SendEmail ==
  /\ pc = "send_email"
  /\ Invoke("send_email", _send_email(state))
  /\ UNCHANGED <<clsFailed, draftFailed, runs, now, det, left, prev,
                 lastCls, lastDraft>>

\* midnight passes
Tick ==
  /\ ~det
  /\ now < MaxNow
  /\ now' = now + 1
  /\ UNCHANGED <<pc, state, trace, calls, clsFailed, draftFailed, runs, det,
                 left, prev, lastCls, lastDraft, avail, driver>>

\* the nodes of the graph
Stage ==
  \/ EnrichSender
  \/ ClassifyEmail
  \/ CheckCalendar
  \/ DraftResponse
  \/ HumanReview
  \/ SendEmail

Next ==
  \/ ProcessEmail
  \/ EnrichSender
  \/ ClassifyEmail
  \/ CheckCalendar
  \/ DraftResponse
  \/ HumanReview
  \/ SendEmail
  \/ Tick

DetNext ==
  \/ ProcessEmail
  \/ EnrichSender
  \/ ClassifyEmail
  \/ CheckCalendar
  \/ DraftResponse
  \/ HumanReview
  \/ SendEmail

\* a caller of the availability provider alone, on any day
AvailInit ==
  /\ pc = Idle
  /\ state = NoState
  /\ trace = <<>>
  /\ calls = 0
  /\ clsFailed = FALSE
  /\ draftFailed = FALSE
  /\ runs = 0
  /\ now \in 0 .. MaxToday
  /\ det = FALSE
  /\ left = {}
  /\ prev = None
  /\ lastCls = None
  /\ lastDraft = None
  /\ avail = None
  /\ driver = NoDriver

\* calendar_service.get_availability(days_ahead) called on its own
GetAvailability ==
  /\ \E days_ahead \in 1 .. MaxDaysAhead :
       avail' = Some([days_ahead |-> days_ahead,
                      slots |-> get_availability(now, days_ahead)])
  /\ UNCHANGED <<pc, state, trace, calls, clsFailed, draftFailed, runs, now,
                 det, left, prev, lastCls, lastDraft, driver>>

AvailNext == GetAvailability

AvailSpec == AvailInit /\ [][AvailNext]_vars

\* ---------------------------------------------------------------- main.py
create_test_emails ==
  << [sender |-> "ceo@company.com", subject |-> "Meeting Request", content |-> "schedule a meeting"],
     [sender |-> "support@customer.com", subject |-> "Question", content |-> "documentation?"],
     [sender |-> "newsletter@spam.com", subject |-> "Amazing deals", content |-> "save 90%"] >>

\* main() has been entered
MainInit ==
  /\ pc = Idle
  /\ state = NoState
  /\ trace = <<>>
  /\ calls = 0
  /\ clsFailed = FALSE
  /\ draftFailed = FALSE
  /\ runs = 0
  /\ now = 0
  /\ det = FALSE
  /\ left = {}
  /\ prev = None
  /\ lastCls = None
  /\ lastDraft = None
  /\ avail = None
  /\ driver = [pc |-> "start", i |-> 1, processed |-> <<>>, outcomes |-> <<>>]

\* load_environment() and EmailAgent(): either raises (no OPENAI_API_KEY)
\* and the outer handler of main ends the program, or the loop begins
MainStartup ==
  /\ driver.pc = "start"
  /\ \E started \in BOOLEAN :
       driver' = [driver EXCEPT !.pc = IF started THEN "loop" ELSE "aborted"]
  /\ UNCHANGED <<pc, state, trace, calls, clsFailed, draftFailed, runs, now,
                 det, left, prev, lastCls, lastDraft, avail>>

\* the loop calls agent.process_email(email) for the next email of the batch
MainCall ==
  /\ driver.pc = "loop"
  /\ driver.i <= Len(create_test_emails)
  /\ LET email == create_test_emails[driver.i]
     IN  /\ state' = initial_state(email)
         /\ driver' = [driver EXCEPT !.pc = "calling",
                                     !.processed = Append(@, email)]
  /\ left' = Populated(state)
  /\ pc' = "enrich_sender"
  /\ runs' = runs + 1
  /\ trace' = <<>>
  /\ calls' = 0
  /\ clsFailed' = FALSE
  /\ draftFailed' = FALSE
  /\ prev' = None
  /\ lastCls' = None
  /\ lastDraft' = None
  /\ UNCHANGED <<now, det, avail>>

\* an exception that no handler of the agent catches leaves process_email
Unexpected ==
  /\ driver.pc = "calling"
  /\ pc \notin {Idle, END, Raised}
  /\ pc' = Raised
  /\ UNCHANGED <<state, trace, calls, clsFailed, draftFailed, runs, now, det,
                 left, prev, lastCls, lastDraft, avail, driver>>

\* what main prints for the call that has just ended
Report(raised, s) ==
  IF raised THEN "Processing failed"
  ELSE IF s.error # None THEN "Error"
  ELSE IF ~s.classification[1].requires_response THEN "No response needed"
  ELSE IF s.should_send THEN "Response drafted and sent"
  ELSE "Response drafted and pending approval"

\* main without the try/except around process_email: the exception reaches
\* the outer handler
AfterCallNoInnerHandler(d, raised, s) ==
  [d EXCEPT
     !.outcomes = Append(@, Report(raised, s)),
     !.i = @ + 1,
     !.pc = IF raised THEN "aborted"
            ELSE IF d.i = Len(create_test_emails) THEN "done" ELSE "loop"]

\* the rest of the loop body: report, then go on to the next email or leave
\* the loop
AfterCall(d, raised, s) ==
  [d EXCEPT
     !.outcomes = Append(@, Report(raised, s)),
     !.i = @ + 1,
     !.pc = IF d.i = Len(create_test_emails) THEN "done" ELSE "loop"]

\* process_email has returned or raised
MainReport ==
  /\ driver.pc = "calling"
  /\ pc \in {END, Raised}
  /\ driver' = AfterCall(driver, pc = Raised, state)
  /\ UNCHANGED <<pc, state, trace, calls, clsFailed, draftFailed, runs, now,
                 det, left, prev, lastCls, lastDraft, avail>>

MainNext ==
  \/ MainStartup
  \/ MainCall
  \/ EnrichSender
  \/ ClassifyEmail
  \/ CheckCalendar
  \/ DraftResponse
  \/ HumanReview
  \/ SendEmail
  \/ Unexpected
  \/ MainReport

\* main is a sequential program: it keeps running until it returns
MainSpec == MainInit /\ [][MainNext]_vars /\ WF_vars(MainNext)

Spec == Init /\ [][Next]_vars

\* graph.invoke runs the nodes one after the other without yielding
FairSpec == Init /\ [][Next]_vars /\ WF_vars(Stage)

DetSpec == DetInit /\ [][DetNext]_vars

\* ---------------------------------------------------------------- typing
Running == pc \notin {Idle, END, Raised}

Ran(n) == \E i \in 1 .. Len(trace) : trace[i] = n

TypeOK ==
  /\ pc \in {Idle, END, Raised, "enrich_sender", "classify_email",
             "check_calendar", "draft_response", "human_review", "send_email"}
  /\ runs \in 0 .. MaxRuns
  /\ now \in 0 .. MaxNow
  /\ calls \in Nat
  /\ Len(state.classification) <= 1
  /\ state.should_send \in BOOLEAN

\* ---------------------------------------------------------------- properties
Finished == pc = END

Intent == state.classification[1].intent

RequiresResponse == state.classification[1].requires_response

Classified == state.classification # None

\* C1: a run whose classification says requires_response == false, or whose
\* intent is spam or newsletter, ends right after classify_email: only
\* enrich_sender and classify_email have run, and the state has no draft,
\* no final response and should_send false.
C1_IgnoredEndsAtClassify ==
  (Classified /\ (~RequiresResponse \/ Intent \in {"spam", "newsletter"})) =>
     /\ pc = END
     /\ trace = <<"enrich_sender", "classify_email">>
     /\ state.response_draft = None
     /\ state.final_response = None
     /\ state.should_send = FALSE

C1_Witness ==
  /\ Finished /\ Classified
  /\ Intent = "newsletter" /\ RequiresResponse
  /\ state.response_draft = None

\* C2 as stated: every finished run classified meeting_request, whatever
\* requires_response says, has between 1 and 5 calendar slots.
C2_Original ==
  (Finished /\ Intent = "meeting_request") =>
     /\ state.calendar_availability # None
     /\ Len(state.calendar_availability[1]) \in 1 .. 5

\* C2 amended: every finished run classified meeting_request with
\* requires_response == true has between 1 and 5 calendar slots.
C2_MeetingRequestHasSlots ==
  (Finished /\ Intent = "meeting_request" /\ RequiresResponse) =>
     /\ state.calendar_availability # None
     /\ Len(state.calendar_availability[1]) \in 1 .. 5

C2_Witness ==
  /\ Finished /\ Intent = "meeting_request" /\ RequiresResponse
  /\ state.calendar_availability # None
  /\ Len(state.calendar_availability[1]) = 5

\* C3: while the run has no classification, and once it has one whose intent
\* is not meeting_request (the fallback included), calendar_availability is
\* unset and get_availability has not been called.
C3_NoCalendarUnlessMeeting ==
  (~Classified \/ Intent # "meeting_request") =>
     /\ state.calendar_availability = None
     /\ calls = 0

C3_Witness ==
  /\ Finished /\ Ran("check_calendar") /\ clsFailed
  /\ Intent = "information_request"
  /\ state.calendar_availability = None

\* C4: once the model call of classify_email has failed, the classification
\* in the state (and so in the returned state) is the fixed fallback and the
\* error field holds a non-empty text.
C4_ClassifyFallback ==
  clsFailed =>
     /\ state.classification =
          Some([intent |-> "information_request", urgency |-> "medium",
                requires_response |-> TRUE,
                reasoning |-> "Failed to classify, using default"])
     /\ state.error # None
     /\ Len(state.error[1]) > 0
     /\ state.error[1][1] # ""

C4_Witness ==
  /\ Finished /\ clsFailed /\ ~draftFailed
  /\ state.error = Some(<<"Classification failed: ", "">>)

AllNodes ==
  <<"enrich_sender", "classify_email", "check_calendar", "draft_response",
    "human_review", "send_email">>

\* C5: a run whose classification failed is never ended by the routing after
\* classify_email: while it has not run all six nodes it is still under way,
\* and it goes on until send_email has run and the run has ended.
C5_ClassifyFailureStillSends ==
  /\ [](clsFailed => (pc = END => trace = AllNodes))
  /\ [](clsFailed => pc # Raised)
  /\ (clsFailed ~> (pc = END /\ trace = AllNodes))

C5_Witness ==
  /\ Finished /\ clsFailed
  /\ Ran("send_email") /\ state.should_send

\* C6: once the model call of draft_response has failed, response_draft is
\* the fixed fallback draft with subject "Re: " + the email's subject, the
\* error field holds the drafting-failure message, and the run has gone on
\* to human_review.
C6_DraftFallback ==
  draftFailed =>
     /\ state.response_draft =
          Some([subject |-> <<"Re: ", state.email[1].subject>>,
                content |-> "Thank you for your email. I'll review this and get back to you soon.",
                tone |-> "professional",
                includes_meeting_times |-> FALSE,
                proposed_times |-> <<>>])
     /\ state.error # None
     /\ state.error[1][1] = "Response drafting failed: "
     /\ pc \in {"human_review", "send_email", END}
     /\ (pc # "human_review" => Ran("human_review"))

C6_Witness ==
  /\ Finished /\ draftFailed /\ ~clsFailed
  /\ Intent = "meeting_request"
  /\ Ran("human_review")

\* C7: whatever fails in classify_email and draft_response, no exception
\* leaves process_email, every call that is under way reaches END, and a
\* failure shows in the error field of the returned state.
C7_AlwaysReturns ==
  /\ [](pc # Raised)
  /\ [](Finished /\ (clsFailed \/ draftFailed) => state.error # None)
  /\ (Running ~> Finished)

C7_Witness ==
  /\ Finished /\ clsFailed /\ draftFailed
  /\ state.error # None

\* C8 as stated: every finished run classified meeting_request has calendar
\* slots, a draft with includes_meeting_times == true, should_send == true
\* and final_response equal to the content of the draft.
C8_Original ==
  (Finished /\ Intent = "meeting_request") =>
     /\ state.calendar_availability # None
     /\ Len(state.calendar_availability[1]) > 0
     /\ state.response_draft # None
     /\ state.response_draft[1].includes_meeting_times
     /\ state.should_send
     /\ state.final_response = Some(state.response_draft[1].content)

\* C8 amended: every finished run classified meeting_request with
\* requires_response == true has calendar slots, a draft, should_send == true
\* and final_response equal to the content of the draft; the draft's
\* includes_meeting_times is false when drafting failed.
C8_MeetingRequestScenario ==
  (Finished /\ Intent = "meeting_request" /\ RequiresResponse) =>
     /\ state.calendar_availability # None
     /\ Len(state.calendar_availability[1]) > 0
     /\ state.response_draft # None
     /\ (draftFailed => ~state.response_draft[1].includes_meeting_times)
     /\ state.should_send
     /\ state.final_response = Some(state.response_draft[1].content)

C8_Witness ==
  /\ Finished /\ Intent = "meeting_request" /\ RequiresResponse
  /\ ~draftFailed
  /\ state.response_draft[1].includes_meeting_times
  /\ Len(state.response_draft[1].proposed_times) = 1
  /\ state.final_response = Some("Generated reply")

\* C9: with a deterministic model and deterministic providers, a call of
\* process_email for the email of the previous call returns the same
\* classification and the same response_draft as the previous call, and has
\* taken the same way (same should_send and final_response).
C9_Determinism ==
  (Finished /\ prev # None) =>
     /\ state.email = prev[1].email
     /\ state.classification = prev[1].classification
     /\ state.response_draft = prev[1].response_draft
     /\ state.should_send = prev[1].should_send
     /\ state.final_response = prev[1].final_response

C9_Witness ==
  /\ Finished /\ prev # None /\ runs >= 2
  /\ Intent = "meeting_request"
  /\ state.response_draft # None
  /\ state.response_draft[1].content = "Generated reply"

\* messages appended by the nodes that have run: each node appends one,
\* except classify_email and draft_response when their model call failed and
\* check_calendar when it did not call the provider
Appended ==
  Len(trace) - (IF clsFailed THEN 1 ELSE 0) - (IF draftFailed THEN 1 ELSE 0)
             - (IF Ran("check_calendar") /\ calls = 0 THEN 1 ELSE 0)

\* C10: whatever the previous call left in the state, a call starts from a
\* state in which only the email is set, and its final state holds only what
\* its own nodes produced.
C10_NoLeakBetweenRuns ==
  /\ pc = "enrich_sender" =>
       state = [email |-> state.email, sender_context |-> None,
                classification |-> None, calendar_availability |-> None,
                response_draft |-> None, final_response |-> None,
                should_send |-> FALSE, messages |-> <<>>, error |-> None]
  /\ Finished =>
       /\ (state.error # None) <=> (clsFailed \/ draftFailed)
       /\ (state.calendar_availability # None) <=> (calls > 0)
       /\ (state.response_draft # None) <=> Ran("draft_response")
       /\ (state.final_response # None) <=> Ran("human_review")
       /\ state.should_send <=> Ran("human_review")
       /\ Len(state.messages) = Appended

C10_Witness ==
  /\ Finished /\ runs >= 2
  /\ {"error", "should_send", "calendar_availability", "response_draft",
      "final_response", "messages"} \subseteq left
  /\ state.error = None /\ ~state.should_send
  /\ state.calendar_availability = None /\ state.response_draft = None

Min(a, b) == IF a < b THEN a ELSE b

\* C11: get_availability(days_ahead), days_ahead >= 1, returns exactly
\* min(2 * days_ahead, 5) slots; each slot ends after it starts and lasts
\* duration_minutes minutes; each slot starts no earlier than the one before
\* it ends.
C11_AvailabilityShape ==
  avail # None =>
    LET slots == avail[1].slots
    IN  /\ Len(slots) = Min(2 * avail[1].days_ahead, 5)
        /\ \A i \in 1 .. Len(slots) :
             /\ slots[i].end_time > slots[i].start_time
             /\ slots[i].duration_minutes =
                  slots[i].end_time - slots[i].start_time
        /\ \A i \in 1 .. Len(slots) - 1 :
             slots[i + 1].start_time >= slots[i].end_time

C11_Witness ==
  /\ avail # None
  /\ avail[1].days_ahead = 3
  /\ Len(avail[1].slots) = 5
  /\ now > 0

\* C12: in every state after enrich_sender has run, sender_context is set:
\* to the stored record for the two known contacts, and for any other sender
\* to a context with importance medium and relationship unknown.
C12_SenderContext ==
  Ran("enrich_sender") =>
    /\ state.sender_context # None
    /\ LET sender == state.email[1].sender
           context == state.sender_context[1]
       IN  /\ sender = "ceo@company.com" =>
                context = [name |-> "CEO", title |-> "Chief Executive Officer",
                           company |-> "Important Corp", importance |-> "high",
                           relationship |-> "key_stakeholder"]
           /\ sender = "support@customer.com" =>
                context = [name |-> "Support Team", title |-> "Customer Support",
                           company |-> "Customer Corp", importance |-> "medium",
                           relationship |-> "customer"]
           /\ sender \notin {"ceo@company.com", "support@customer.com"} =>
                /\ context.importance = "medium"
                /\ context.relationship = "unknown"

C12_Witness ==
  /\ Finished /\ Ran("draft_response")
  /\ state.email[1].sender = "test@example.com"
  /\ state.sender_context # None
  /\ state.sender_context[1].relationship = "unknown"

\* C13: on every path the returned state holds an email of the caller and a
\* classification, and no node changes the email field.
C13_ReturnsEmailAndClassification ==
  /\ [](Finished => /\ state.email # None
                    /\ state.email[1] \in EmailData
                    /\ state.classification # None)
  /\ [][Running => state'.email = state.email]_vars

C13_Witness ==
  /\ Finished /\ clsFailed /\ draftFailed
  /\ state.email[1].sender = "test@example.com"
  /\ state.classification # None

\* the first n emails of the batch
Batch(n) == SubSeq(create_test_emails, 1, n)

\* C14: if startup fails no email is processed; otherwise the emails of the
\* batch are passed to process_email once each, in order; main stops early
\* only on a startup failure, and once the loop has begun it goes on to the
\* end of the batch whatever the calls do, reporting each of them.
C14_DriverBatch ==
  /\ [](driver.pc = "aborted" => driver.processed = <<>> /\ runs = 0)
  /\ [](/\ driver.processed = Batch(Len(driver.processed))
        /\ runs = Len(driver.processed))
  /\ [](driver.pc = "done" =>
          /\ driver.processed = create_test_emails
          /\ Len(driver.outcomes) = Len(create_test_emails))
  /\ (driver.pc = "loop" ~> driver.pc = "done")

C14_Witness ==
  /\ driver.pc = "done"
  /\ driver.processed = create_test_emails
  /\ driver.outcomes[1] = "Processing failed"
  /\ driver.outcomes[2] = "Error"
  /\ driver.outcomes[3] = "No response needed"

IsPrefix(s, t) == Len(s) <= Len(t) /\ s = SubSeq(t, 1, Len(s))

\* C15: the nodes a run has executed are always an initial part of
\* enrich_sender, classify_email, check_calendar, draft_response,
\* human_review, send_email (so none runs twice or out of order); a run ends
\* after classify_email, after human_review or after send_email; and once
\* check_calendar has run, draft_response is next or has run, whatever the
\* intent.
C15_GraphPath ==
  /\ IsPrefix(trace, AllNodes)
  /\ Running => pc = AllNodes[Len(trace) + 1]
  /\ Finished => Len(trace) \in {2, 5, 6}
  /\ Ran("check_calendar") => (pc = "draft_response" \/ Ran("draft_response"))

C15_Witness ==
  /\ pc = "draft_response"
  /\ trace = <<"enrich_sender", "classify_email", "check_calendar">>
  /\ Intent = "support_question"
  /\ state.calendar_availability = None

\* C16: in every state after human_review has run, should_send is true and
\* final_response is the content of response_draft; in every state before
\* it has run, should_send is false and final_response is unset.
C16_ReviewApproves ==
  /\ Ran("human_review") =>
       /\ state.should_send
       /\ state.response_draft # None
       /\ state.final_response = Some(state.response_draft[1].content)
  /\ ~Ran("human_review") =>
       /\ ~state.should_send
       /\ state.final_response = None

C16_Witness ==
  /\ Ran("human_review") /\ draftFailed
  /\ state.final_response =
       Some("Thank you for your email. I'll review this and get back to you soon.")
  /\ state.should_send

\* C17: send_email is about to run, or has run, only with should_send true;
\* after human_review the run goes to send_email when should_send is true and
\* ends otherwise; a finished run has should_send true exactly if send_email
\* has run.
C17_SendOnlyIfApproved ==
  /\ (pc = "send_email" \/ Ran("send_email")) => state.should_send
  /\ (Ran("human_review") /\ state.should_send) =>
       (pc = "send_email" \/ Ran("send_email"))
  /\ (Ran("human_review") /\ ~state.should_send) => pc = END
  /\ Finished => (state.should_send <=> Ran("send_email"))

C17_Witness ==
  /\ Finished /\ Ran("send_email")
  /\ state.should_send
  /\ ~clsFailed /\ ~draftFailed

\* the node that writes a given log entry
NodeOfMessage(m) ==
  CASE m.content[1] = "Enriched sender context for " -> 1
    [] m.content[1] = "Classified email: " -> 2
    [] m.content[1] = "Retrieved " -> 3
    [] m.content[1] = "Drafted response with tone: " -> 4
    [] m.content[1] = "Email draft presented for human review" -> 5
    [] m.content[1] = "Email sent successfully" -> 6

\* C18: every step of a run leaves the log it found as an initial part of
\* the log it hands on, and the entries of the log stand in the order in
\* which their nodes ran.
C18_LogAppendOnly ==
  /\ [][Running => IsPrefix(state.messages, state'.messages)]_vars
  /\ [](\A i \in 1 .. Len(state.messages) - 1 :
          NodeOfMessage(state.messages[i]) < NodeOfMessage(state.messages[i + 1]))
  /\ [](\A i \in 1 .. Len(state.messages) :
          Ran(AllNodes[NodeOfMessage(state.messages[i])]))

C18_Witness ==
  /\ Finished
  /\ Len(state.messages) = 6
  /\ state.messages[6] = AIMessage(<<"Email sent successfully">>)
  /\ state.messages[1].type = "human"

\* C19: the error field is unset exactly while neither model call of the run
\* has failed; no step of a run clears it; and when both calls have failed it
\* holds the drafting-failure message only.
C19_ErrorField ==
  /\ [](Running \/ Finished =>
          ((state.error = None) <=> ~(clsFailed \/ draftFailed)))
  /\ [][(Running /\ state.error # None) => state'.error # None]_vars
  /\ [](clsFailed /\ draftFailed =>
          /\ Len(state.error[1]) = 2
          /\ state.error[1][1] = "Response drafting failed: ")

C19_Witness ==
  /\ Finished /\ clsFailed /\ draftFailed
  /\ state.error = Some(<<"Response drafting failed: ", "Connection error">>)

\* C20: a node is about to run only with the fields it reads set:
\* classify_email with sender_context; check_calendar and draft_response (and
\* the two routing functions, which run right after classify_email and
\* check_calendar) with classification; human_review with response_draft;
\* send_email with final_response.
C20_FieldsSetBeforeRead ==
  /\ pc = "classify_email" => state.sender_context # None
  /\ Ran("classify_email") => state.classification # None
  /\ pc \in {"check_calendar", "draft_response"} =>
       state.classification # None /\ state.sender_context # None
  /\ pc = "human_review" => state.response_draft # None
  /\ pc = "send_email" => state.final_response # None

C20_Witness ==
  /\ pc = "send_email"
  /\ state.final_response # None /\ state.response_draft # None
  /\ state.classification # None /\ state.sender_context # None

====
